---- MODULE Spec2Model ----
(***************************************************************************)
(* Journey execution state machine (JourneyScenario.execute_scenario and   *)
(* execute_step), the comparison of a journey with the analytics data      *)
(* (AnalyticsIntegrator.compare_user_journey_with_analytics), the UX report *)
(* derivation (AnalyticsIntegrator.generate_ux_improvement_report) and the *)
(* pipeline of the two (JourneyScenario.analyze_journey).                  *)
(*                                                                         *)
(* Python dicts are functions with string domains; dict.get is Get, and    *)
(* dict.update is Update.  Python's None is the token None.  Strings that  *)
(* the code interpolates are kept as tokens; the path string is the        *)
(* sequence of its tokens, the separator " -> " being one token.           *)
(* The wall-clock fields start_time and end_time are left out; duration is *)
(* an input of the comparison, in whole seconds, and a bounce_rate is kept *)
(* in hundredths.                                                          *)
(***************************************************************************)
EXTENDS Integers, Sequences, FiniteSets, TLC

VARIABLES
  scenario,      \* the argument of the execute_scenario call in progress
  pc,            \* position of execute_scenario: idle, step (in execute_step), sleep,
                 \* done (returned), raised (the join raised), step_raised (a fault
                 \* escaped execute_step)
  i,             \* 1-based index of the step the loop is at
  journey_data,  \* JourneyScenario.journey_data
  calls,         \* the calls issued to the browser collaborator, with their outcome
  result,        \* what execute_scenario returned
  rin,           \* the arguments of generate_ux_improvement_report
  report,        \* the report its last call returned
  previous,      \* the report the call before the last returned
  analytics_integrator,  \* JourneyScenario.analytics_integrator
  queries,       \* the queries issued to query_analytics_data, with their result
  cmp_result,    \* what compare_user_journey_with_analytics returned, or Raise
  analysis,      \* what analyze_journey returned, or Raise
  viewport,      \* the viewport size of the browser
  capture,       \* the browser_capture_full_page_screenshot call: its position,
                 \* its locals and what it returned
  runs,          \* the number of execute_scenario calls made on the JourneyScenario
  procs,         \* the position, scenario and index of each of two interleaved
                 \* execute_scenario calls
  journey_scenario,  \* LLMToolIntegration.journey_scenario: None, or the number
                     \* of the JourneyScenario instance
  constructed,   \* the number of JourneyScenario instances constructed
  tool_log       \* the handle_tool_call invocations, with their result

vars == <<scenario, pc, i, journey_data, calls, result, rin, report, previous,
          analytics_integrator, queries, cmp_result, analysis,
          viewport, capture, runs, procs, journey_scenario, constructed, tool_log>>

analyticsVars == <<analytics_integrator, queries, cmp_result, analysis>>

captureVars == <<viewport, capture>>

toolVars == <<journey_scenario, constructed, tool_log>>

\* ------------------------------------------------------------------ bounds

MaxSteps == 2

\* The insights, violations and journey errors given to one report, together.
MaxItems == 3

\* ------------------------------------------------------------ dict helpers

None == "<None>"

EmptyDict == <<>>

Get(m, k, d) == IF k \in DOMAIN m THEN m[k] ELSE d

Update(d, e) == e @@ d

Truthy(v) == v # None /\ v # ""

\* A collaborator call that raised instead of returning.
Raise == [raised |-> TRUE]

Raised(o) == Len(o) > 0 /\ "raised" \in DOMAIN o[Len(o)]

\* {'width': 1280, 'height': 720}
DefaultViewport == [width |-> 1280, height |-> 720]

\* ------------------------------------------------------------ step inputs

StepSpecs ==
  { [action |-> "navigate", url |-> "u1"],
    [action |-> "navigate", url |-> "u2", critical |-> TRUE],
    [action |-> "navigate"],
    [action |-> "click", selector |-> "s1", critical |-> TRUE],
    [action |-> "input", selector |-> "s2", text |-> "t", scroll_into_view |-> FALSE],
    [action |-> "wait", critical |-> TRUE],
    [action |-> "scroll", direction |-> "up"],
    [action |-> "scroll", direction |-> "sideways", critical |-> FALSE],
    [action |-> "take_screenshot"],
    [action |-> "analyze_page"],
    [action |-> "login", url |-> "u3", username |-> "user", critical |-> TRUE],
    [action |-> "navigate_to_mypage", selector |-> "s3"],
    [action |-> "hover", selector |-> "s4"],
    [critical |-> TRUE] }

Scenarios == UNION { [1..n -> StepSpecs] : n \in 0..MaxSteps }

StepType(step) == Get(step, "action", None)

\* ------------------------------------------- the browser collaborator

UiMetricsValues ==
  { [performance |-> [loadTimeMs |-> 3500]],
    [clickableMetrics |-> [smallTargets |-> 4, total |-> 10, withoutLabels |-> 0]] }

A11yValues == { [mainViolations |-> <<[id |-> "image-alt", impact |-> "serious"]>>] }

\* The collaborator methods a step calls, in order.
Api(step) ==
  LET t == StepType(step) IN
  CASE t = "navigate" -> <<"browser_navigate_to">>
    [] t \in {"click", "input"} ->
         IF Get(step, "scroll_into_view", TRUE)
           THEN <<"browser_evaluate", "browser_evaluate">>
           ELSE <<"browser_evaluate">>
    [] t = "wait" -> <<"browser_wait">>
    [] t = "scroll" ->
         LET direction == Get(step, "direction", "down") IN
         IF direction = "down" THEN <<"browser_scroll_down">>
         ELSE IF direction = "up" THEN <<"browser_scroll_up">>
         ELSE <<>>
    [] t = "take_screenshot" -> <<"browser_capture_full_page_screenshot">>
    [] t = "analyze_page" ->
         <<"browser_analyze_page_structure", "browser_extract_ui_metrics",
           "browser_run_a11y_audit">>
    [] t = "login" -> <<"browser_login">>
    [] t = "navigate_to_mypage" -> <<"browser_navigate_to_mypage">>
    [] OTHER -> <<>>

\* What the j-th call of a step can return when it does not raise.
Returns(step, j) ==
  LET a == Api(step)[j] IN
  CASE a = "browser_navigate_to" ->
         { [success |-> TRUE, message |-> "navigated"],
           [success |-> FALSE, message |-> "navigation failed"] }
    [] a = "browser_evaluate" ->
         IF j < Len(Api(step))
           THEN { EmptyDict }
           ELSE { [success |-> TRUE, message |-> "element ok"],
                  [success |-> FALSE, message |-> "element not found"] }
    [] a = "browser_wait" -> { [success |-> TRUE, message |-> "waited"] }
    [] a \in {"browser_scroll_down", "browser_scroll_up"} ->
         { [success |-> TRUE, message |-> "scrolled"],
           [success |-> FALSE, message |-> "scroll failed"] }
    [] a = "browser_capture_full_page_screenshot" ->
         { [success |-> TRUE, message |-> "captured", data |-> "img",
            dimensions |-> [width |-> 1280, height |-> 2000]],
           [success |-> TRUE, message |-> "captured", data |-> None,
            dimensions |-> [width |-> 1280, height |-> 2000]],
           [success |-> FALSE, message |-> "capture error"] }
    [] a = "browser_analyze_page_structure" ->
         { [success |-> TRUE, structure |-> [title |-> "page"]],
           [success |-> FALSE, message |-> "structure error"] }
    [] a = "browser_extract_ui_metrics" ->
         { [success |-> TRUE, metrics |-> m] : m \in UiMetricsValues }
           \cup { [success |-> FALSE, message |-> "metrics error"] }
    [] a = "browser_run_a11y_audit" ->
         { [success |-> TRUE, results |-> r] : r \in A11yValues }
           \cup { [success |-> FALSE, message |-> "audit error"] }
    [] a = "browser_login" ->
         { [success |-> TRUE, message |-> "logged in", current_url |-> "u5"],
           [success |-> FALSE, message |-> "login failed"] }
    [] a = "browser_navigate_to_mypage" ->
         { [success |-> TRUE, message |-> "mypage", url |-> "u4"],
           [success |-> FALSE, message |-> "mypage not found"] }

\* The first k calls of a step all returning.
Returned(step, k) ==
  IF k = 0 THEN { <<>> }
  ELSE LET all == UNION { Returns(step, j) : j \in 1..k } IN
       { o \in [1..k -> all] : \A j \in 1..k : o[j] \in Returns(step, j) }

\* Every outcome of a step's collaborator calls: all of them return, or one of
\* them raises and the later ones are never issued.
Outcomes(step) ==
  LET n == Len(Api(step)) IN
  Returned(step, n)
    \cup UNION { { Append(p, Raise) : p \in Returned(step, k - 1) } : k \in 1..n }

\* The entries a step adds to the call log.
CallLog(idx, step, o) ==
  [j \in 1..Len(o) |-> [step |-> idx, api |-> Api(step)[j], resp |-> o[j]]]

\* ------------------------------------------------------------ execute_step

\* The try block of execute_step: the fields the branch of this step type adds
\* to step_data and what it does to journey_data, or exc when a fault is
\* raised inside it (by a collaborator call, or by the unbound result of a
\* scroll that is neither down nor up).
TryBody(jd, step, o) ==
  LET t == StepType(step)
      r == IF Len(o) > 0 THEN o[Len(o)] ELSE EmptyDict
      fault == [exc |-> TRUE, data |-> EmptyDict, jd |-> jd]
      ok(data) == [exc |-> FALSE, data |-> data, jd |-> jd]
  IN
  IF Raised(o) THEN fault
  ELSE
  CASE t = "navigate" ->
         ok([url |-> Get(step, "url", None),
             success |-> r.success,
             message |-> r.message])
    [] t = "click" ->
         ok([selector |-> Get(step, "selector", None),
             element_description |-> Get(step, "description", "element"),
             success |-> Get(r, "success", FALSE),
             message |-> Get(r, "message", "")])
    [] t = "input" ->
         ok([selector |-> Get(step, "selector", None),
             element_description |-> Get(step, "description", "input field"),
             text |-> Get(step, "text", ""),
             success |-> Get(r, "success", FALSE),
             message |-> Get(r, "message", "")])
    [] t = "wait" ->
         ok([seconds |-> Get(step, "seconds", 3),
             success |-> TRUE,
             message |-> "wait done"])
    [] t = "scroll" ->
         IF Len(o) = 0 THEN fault
         ELSE ok([direction |-> Get(step, "direction", "down"),
                  distance |-> Get(step, "distance", 300),
                  success |-> Get(r, "success", FALSE),
                  message |-> Get(r, "message", "")])
    [] t = "take_screenshot" ->
         LET screenshot_id == Len(jd.screenshots) + 1
             data == [screenshot_id |-> screenshot_id,
                      success |-> Get(r, "success", FALSE),
                      message |-> Get(r, "message", "")]
         IN IF Get(r, "success", FALSE) /\ Truthy(Get(r, "data", None))
              THEN [exc |-> FALSE, data |-> data,
                    jd |-> [jd EXCEPT !.screenshots =
                              Append(@, [id |-> screenshot_id,
                                         data |-> r.data,
                                         dimensions |-> Get(r, "dimensions", EmptyDict)])]]
              ELSE ok(data)
    [] t = "analyze_page" ->
         LET structure_result == o[1]
             metrics_result == o[2]
             a11y_result == o[3]
             jd1 == IF Get(metrics_result, "success", FALSE)
                      THEN [jd EXCEPT !.ui_metrics = Get(metrics_result, "metrics", EmptyDict)]
                      ELSE jd
             jd2 == IF Get(a11y_result, "success", FALSE)
                      THEN [jd1 EXCEPT !.a11y_results = Get(a11y_result, "results", EmptyDict)]
                      ELSE jd1
         IN [exc |-> FALSE,
             data |-> [page_structure |-> Get(structure_result, "structure", EmptyDict),
                       ui_metrics |-> Get(metrics_result, "metrics", EmptyDict),
                       a11y_results |-> Get(a11y_result, "results", EmptyDict),
                       success |-> Get(structure_result, "success", FALSE)
                                     /\ Get(metrics_result, "success", FALSE),
                       message |-> "page analysis done"],
             jd |-> jd2]
    [] t = "login" ->
         ok([url |-> Get(step, "url", None),
             username_selector |-> Get(step, "username_selector", None),
             password_selector |-> Get(step, "password_selector", None),
             submit_selector |-> Get(step, "submit_selector", None),
             username |-> Get(step, "username", None),
             success |-> Get(r, "success", FALSE),
             message |-> Get(r, "message", ""),
             current_url |-> Get(r, "current_url", "")])
    [] t = "navigate_to_mypage" ->
         ok([selector |-> Get(step, "selector", None),
             text |-> Get(step, "text", None),
             success |-> Get(r, "success", FALSE),
             message |-> Get(r, "message", ""),
             url |-> Get(r, "url", "")])
    [] OTHER ->
         ok([success |-> FALSE, message |-> "unknown step type"])

\* A handler that lets the fault through.
ExceptHandlerReraises(tb) == tb

\* except Exception: the fault becomes a failure with a message.
ExceptHandler(tb) ==
  IF tb.exc
    THEN [exc |-> FALSE,
          data |-> [success |-> FALSE, message |-> "step execution error"],
          jd |-> tb.jd]
    ELSE tb

\* An entry that takes its index after the step is appended.
ErrorEntryIndexAfterAppend(step_data, steps) ==
  [step |-> step_data.type,
   step_index |-> Len(steps) + 1,
   message |-> Get(step_data, "message", ""),
   element |-> Get(step_data, "selector", Get(step_data, "url", ""))]

\* The ErrorEntry of a failed step; steps is the list before the step is added.
ErrorEntry(step_data, steps) ==
  [step |-> step_data.type,
   step_index |-> Len(steps),
   message |-> Get(step_data, "message", ""),
   element |-> Get(step_data, "selector", Get(step_data, "url", ""))]

\* execute_step on journey_data jd: the new journey_data and the returned
\* step_data, or exc when a fault escapes the call.
execute_step(jd, step, o) ==
  LET step_data0 == [type |-> StepType(step)]
      tb == ExceptHandler(TryBody(jd, step, o))
  IN
  IF tb.exc THEN [exc |-> TRUE, step_data |-> step_data0, jd |-> tb.jd]
  ELSE
    LET step_data == Update(step_data0, tb.data)
        errors == IF ~Get(step_data, "success", FALSE)
                    THEN Append(tb.jd.errors, ErrorEntry(step_data, tb.jd.steps))
                    ELSE tb.jd.errors
    IN [exc |-> FALSE,
        step_data |-> step_data,
        jd |-> [tb.jd EXCEPT !.errors = errors, !.steps = Append(@, step_data)]]

\* -------------------------------------------------------- execute_scenario

\* A loop that never breaks.
NeverAbort(step_result, step) == FALSE

\* A loop that breaks on any failed step.
AbortOnAnyFailure(step_result, step) == ~Get(step_result, "success", FALSE)

\* The break of the loop: the step failed and is marked critical.
ShouldAbort(step_result, step) ==
  ~Get(step_result, "success", FALSE) /\ Get(step, "critical", FALSE)

RECURSIVE UrlsOf(_, _)
\* The url fields of the steps whose type is in kinds, in order.
UrlsOf(steps, kinds) ==
  IF steps = <<>> THEN <<>>
  ELSE LET step == Head(steps) IN
       IF step.type \in kinds /\ "url" \in DOMAIN step
         THEN <<step.url>> \o UrlsOf(Tail(steps), kinds)
         ELSE UrlsOf(Tail(steps), kinds)

RECURSIVE Join(_)
\* " -> ".join(urls): the tokens of the joined string.  An empty string adds no
\* token of its own.  Not defined on a list that holds None (TypeError).
Join(urls) ==
  IF urls = <<>> THEN <<>>
  ELSE LET head == IF Head(urls) = "" THEN <<>> ELSE <<Head(urls)>> IN
       IF Len(urls) = 1 THEN head
       ELSE head \o <<" -> ">> \o Join(Tail(urls))

\* The urls _extract_journey_path collects.
JourneyUrls(jd) == UrlsOf(jd.steps, {"navigate", "login", "navigate_to_mypage"})

\* A success flag that is always set.
AlwaysSuccess(jd) == TRUE

\* The success flag execute_scenario stores.
ScenarioSuccess(jd) == Len(jd.errors) = 0

\* The end of execute_scenario, reached in the same step as the break or the
\* end of the loop: the update of journey_data and the return, or the
\* TypeError of the join when a url is None.
Completion(jd) ==
  LET urls == JourneyUrls(jd) IN
  IF \E k \in 1..Len(urls) : urls[k] = None
    THEN /\ pc' = "raised"
         /\ journey_data' = jd
         /\ result' = EmptyDict
    ELSE LET done == Update(jd, [success |-> ScenarioSuccess(jd),
                                 path |-> Join(urls)])
         IN /\ pc' = "done"
            /\ journey_data' = done
            /\ result' = [success |-> done.success, message |-> "scenario done"]

\* JourneyScenario.__init__
NewJourneyData ==
  [steps |-> <<>>,
   errors |-> <<>>,
   success |-> FALSE,
   ui_metrics |-> EmptyDict,
   a11y_results |-> EmptyDict,
   screenshots |-> <<>>]

\* The callers that run execute_scenario on one JourneyScenario at a time.
RunIds == {"A", "B"}

\* The browser with its default viewport and no capture in progress; no
\* execute_scenario call made; no tool call handled, LLMToolIntegration.__init__
\* having set journey_scenario to None.
InitRest ==
  /\ viewport = DefaultViewport
  /\ capture = [pc |-> "idle"]
  /\ runs = 0
  /\ procs = [p \in RunIds |-> [pc |-> "idle", scenario |-> <<>>, i |-> 1]]
  /\ journey_scenario = None
  /\ constructed = 0
  /\ tool_log = <<>>

\* The call of execute_scenario up to its first suspension point.
ExecuteScenario ==
  /\ pc = "idle"
  /\ \E s \in Scenarios :
       LET jd == [journey_data EXCEPT !.steps = <<>>, !.errors = <<>>] IN
       /\ scenario' = s
       /\ i' = 1
       /\ IF Len(s) = 0
            THEN Completion(jd)
            ELSE /\ pc' = "step"
                 /\ journey_data' = jd
                 /\ result' = result
  /\ runs' = runs + 1
  /\ UNCHANGED <<calls, rin, report, previous, analyticsVars, captureVars, procs, toolVars>>

\* One execute_step call of the loop, with what follows it up to the sleep.
RunStep ==
  /\ pc = "step"
  /\ \E o \in Outcomes(scenario[i]) :
       LET step == scenario[i]
           r == execute_step(journey_data, step, o)
       IN /\ calls' = calls \o CallLog(i, step, o)
          /\ IF r.exc
               THEN /\ pc' = "step_raised"
                    /\ journey_data' = r.jd
                    /\ result' = result
               ELSE IF ShouldAbort(r.step_data, step)
                 THEN Completion(r.jd)
                 ELSE /\ pc' = "sleep"
                      /\ journey_data' = r.jd
                      /\ result' = result
  /\ UNCHANGED <<scenario, i, rin, report, previous, analyticsVars, captureVars, runs, procs,
                 toolVars>>

\* The sleep of post_delay is over: the next step, or the end of the loop.
PostDelay ==
  /\ pc = "sleep"
  /\ IF i = Len(scenario)
       THEN /\ Completion(journey_data)
            /\ i' = i
       ELSE /\ pc' = "step"
            /\ i' = i + 1
            /\ UNCHANGED <<journey_data, result>>
  /\ UNCHANGED <<scenario, calls, rin, report, previous, analyticsVars, captureVars, runs,
                 procs, toolVars>>

Init ==
  /\ scenario = <<>>
  /\ pc = "idle"
  /\ i = 1
  /\ journey_data = NewJourneyData
  /\ calls = <<>>
  /\ result = EmptyDict
  /\ rin = EmptyDict
  /\ report = EmptyDict
  /\ previous = EmptyDict
  /\ analytics_integrator = None
  /\ queries = <<>>
  /\ cmp_result = EmptyDict
  /\ analysis = EmptyDict
  /\ InitRest

Next == ExecuteScenario \/ RunStep \/ PostDelay

Spec == Init /\ [][Next]_vars

\* ------------------------------------ generate_ux_improvement_report

\* The insights of a comparison: those the comparator emits, and others a
\* caller can pass (a severity outside the four, no severity, no type).
InsightValues ==
  { [type |-> "time_insight", severity |-> "high", title |-> <<"journey far above average">>],
    [type |-> "performance_insight", severity |-> "high", title |-> <<"slow page load">>],
    [type |-> "usability_insight", severity |-> "medium", title |-> <<"small click targets">>],
    [type |-> "performance", severity |-> "critical", title |-> <<"blocking script">>],
    [severity |-> "low", title |-> <<"minor wording">>],
    [type |-> "general", severity |-> "urgent", title |-> <<"unrated finding">>],
    [type |-> "usability"] }

ViolationValues ==
  { [id |-> "color-contrast", impact |-> "critical", helpUrl |-> "h1"],
    [id |-> "image-alt", impact |-> "serious"],
    [id |-> "label", impact |-> "moderate"],
    [id |-> "region", impact |-> "minor"],
    [id |-> "meta-viewport", impact |-> "cosmetic"],
    [id |-> "list"] }

ErrorValues ==
  { [step |-> "click", step_index |-> 0, message |-> "element not found", element |-> "s1"],
    [step |-> None, step_index |-> 1, message |-> "unknown step type", element |-> ""] }

UiMetricsInputs ==
  { EmptyDict,
    [performance |-> [loadTimeMs |-> 3000]],
    [performance |-> [loadTimeMs |-> 3001]],
    [performance |-> [loadTimeMs |-> 3001],
     clickableMetrics |-> [smallTargets |-> 4, total |-> 10, withoutLabels |-> 2],
     imageMetrics |-> [withoutAlt |-> 3, total |-> 10]],
    [clickableMetrics |-> [smallTargets |-> 3, total |-> 10, withoutLabels |-> 1],
     imageMetrics |-> [withoutAlt |-> 2, total |-> 10]],
    [clickableMetrics |-> [smallTargets |-> 1, total |-> 0, withoutLabels |-> 0]],
    [clickableMetrics |-> [smallTargets |-> 0, total |-> 0],
     imageMetrics |-> [withoutAlt |-> 0, total |-> 0]],
    [imageMetrics |-> [withoutAlt |-> 3, total |-> 10]] }

\* The arguments of one call: journey_data, analytics_comparison, a11y_results.
ReportArgs(insights, violations, errors, ui_metrics) ==
  [journey_data |-> [errors |-> errors, ui_metrics |-> ui_metrics],
   analytics_comparison |-> [success |-> TRUE, comparison |-> [insights |-> insights]],
   a11y_results |-> [results |-> [mainViolations |-> violations]]]

\* The lengths of the three lists of one call.
InputLengths ==
  { n \in (0..MaxItems) \X (0..MaxItems) \X (0..MaxItems) : n[1] + n[2] + n[3] <= MaxItems }

Max(a, b) == IF a >= b THEN a ELSE b

Min(a, b) == IF a <= b THEN a ELSE b

\* {"critical": 4, "high": 3, "medium": 2, "low": 1}.get(severity, 2)
SeverityValue(severity) ==
  CASE severity = "critical" -> 4
    [] severity = "high" -> 3
    [] severity = "medium" -> 2
    [] severity = "low" -> 1
    [] OTHER -> 2

\* The if/elif chain that picks the per-severity counter; None when no arm matches.
SeverityCounter(severity) ==
  CASE severity = "critical" -> "critical_issues"
    [] severity = "high" -> "high_priority_issues"
    [] severity = "medium" -> "medium_priority_issues"
    [] severity = "low" -> "low_priority_issues"
    [] OTHER -> None

\* {"critical": ..., "serious": "high", "moderate": "medium", "minor": "low"}.get(impact, "medium")
ImpactSeverity(impact) ==
  CASE impact = "critical" -> "critical"
    [] impact = "serious" -> "high"
    [] impact = "moderate" -> "medium"
    [] impact = "minor" -> "low"
    [] OTHER -> "medium"

\* An update that forgets issues_found.
CountIssueSeverityOnly(summary, counter) ==
  IF counter = None THEN summary ELSE [summary EXCEPT ![counter] = @ + 1]

\* The update of the summary after an issue is appended: issues_found, and
\* the per-severity counter when there is one.
CountIssue(summary, counter) ==
  LET found == [summary EXCEPT !.issues_found = @ + 1] IN
  IF counter = None THEN found ELSE [found EXCEPT ![counter] = @ + 1]

\* A report that puts each new issue in front of the list.
PrependIssue(rep, issue, counter) ==
  [rep EXCEPT !.issues = <<issue>> \o @, !.summary = CountIssue(@, counter)]

\* report["issues"].append(issue) and the update of the summary
AppendIssue(rep, issue, counter) ==
  [rep EXCEPT !.issues = Append(@, issue), !.summary = CountIssue(@, counter)]

RECURSIVE IssuesFromInsights(_, _)
\* 1. one issue per insight
IssuesFromInsights(rep, insights) ==
  IF insights = <<>> THEN rep
  ELSE LET insight == Head(insights)
           severity == Get(insight, "severity", "medium")
           issue == [title |-> Get(insight, "title", <<"issue">>),
                     severity |-> severity,
                     severity_value |-> SeverityValue(severity),
                     type |-> Get(insight, "type", "general"),
                     source |-> "analytics_comparison"]
       IN IssuesFromInsights(AppendIssue(rep, issue, SeverityCounter(severity)),
                             Tail(insights))

RECURSIVE IssuesFromViolations(_, _)
\* 2. one issue per accessibility violation
IssuesFromViolations(rep, violations) ==
  IF violations = <<>> THEN rep
  ELSE LET violation == Head(violations)
           impact == Get(violation, "impact", "minor")
           severity == ImpactSeverity(impact)
           issue == [title |-> <<"accessibility issue: ", Get(violation, "id", "unknown")>>,
                     severity |-> severity,
                     severity_value |-> SeverityValue(severity),
                     type |-> "accessibility",
                     source |-> "a11y_audit",
                     helpUrl |-> Get(violation, "helpUrl", "")]
       IN IssuesFromViolations(AppendIssue(rep, issue, SeverityCounter(severity)),
                               Tail(violations))

RECURSIVE IssuesFromErrors(_, _)
\* 3. one high issue per journey error
IssuesFromErrors(rep, errors) ==
  IF errors = <<>> THEN rep
  ELSE LET error == Head(errors)
           issue == [title |-> <<"journey error: ", Get(error, "step", "unknown step")>>,
                     severity |-> "high",
                     severity_value |-> 3,
                     type |-> "journey_error",
                     source |-> "automation"]
       IN IssuesFromErrors(AppendIssue(rep, issue, "high_priority_issues"), Tail(errors))

\* A check that rates every breach high.
UiIssueAlwaysHigh(title, severity, type) ==
  [title |-> <<title>>,
   severity |-> "high",
   severity_value |-> 3,
   type |-> type,
   source |-> "ui_metrics"]

\* The issue of a breached threshold of ui_metrics.
UiIssue(title, severity, type) ==
  [title |-> <<title>>,
   severity |-> severity,
   severity_value |-> SeverityValue(severity),
   type |-> type,
   source |-> "ui_metrics"]

\* 4. the four threshold checks on ui_metrics.  A ratio a / max(total, 1) > p / q
\* is compared as q * a > p * max(total, 1).
IssuesFromUiMetrics(rep, ui_metrics) ==
  LET clickable == Get(ui_metrics, "clickableMetrics", EmptyDict)
      images == Get(ui_metrics, "imageMetrics", EmptyDict)
      total_targets == Max(Get(clickable, "total", 1), 1)
      total_images == Max(Get(images, "total", 1), 1)
      r1 == IF Get(Get(ui_metrics, "performance", EmptyDict), "loadTimeMs", 0) > 3000
              THEN AppendIssue(rep, UiIssue("slow page load", "high", "performance"),
                               "high_priority_issues")
              ELSE rep
      r2 == IF /\ "clickableMetrics" \in DOMAIN ui_metrics
               /\ 10 * Get(clickable, "smallTargets", 0) > 3 * total_targets
              THEN AppendIssue(r1, UiIssue("small click targets", "medium", "usability"),
                               "medium_priority_issues")
              ELSE r1
      r3 == IF /\ "clickableMetrics" \in DOMAIN ui_metrics
               /\ 10 * Get(clickable, "withoutLabels", 0) > total_targets
              THEN AppendIssue(r2, UiIssue("unlabeled click targets", "medium", "accessibility"),
                               "medium_priority_issues")
              ELSE r2
      r4 == IF /\ "imageMetrics" \in DOMAIN ui_metrics
               /\ 10 * Get(images, "withoutAlt", 0) > 2 * total_images
              THEN AppendIssue(r3, UiIssue("images without alt text", "medium", "accessibility"),
                               "medium_priority_issues")
              ELSE r3
  IN r4

\* An insertion that puts an issue before the issues of its own severity_value.
InsertBeforeEqual(sorted, x) ==
  LET before == SelectSeq(sorted, LAMBDA y : y.severity_value > x.severity_value)
      after == SelectSeq(sorted, LAMBDA y : y.severity_value <= x.severity_value)
  IN before \o <<x>> \o after

\* The place of one more issue in a list sorted by severity_value, descending:
\* after every issue whose severity_value is not smaller (the sort is stable).
InsertBySeverity(sorted, x) ==
  LET before == SelectSeq(sorted, LAMBDA y : y.severity_value >= x.severity_value)
      after == SelectSeq(sorted, LAMBDA y : y.severity_value < x.severity_value)
  IN before \o <<x>> \o after

RECURSIVE SortedIssues(_)
\* sorted(issues, key=severity_value, reverse=True)
SortedIssues(issues) ==
  IF issues = <<>> THEN <<>>
  ELSE InsertBySeverity(SortedIssues(SubSeq(issues, 1, Len(issues) - 1)),
                        issues[Len(issues)])

\* sorted_issues[:5]
TopN == 5

\* The recommendation of the issue at (1-based) place rank of the top slice.
Recommendation(rank, issue) ==
  LET issue_type == Get(issue, "type", "general")
      template ==
        CASE issue_type = "performance" ->
               [prefix |-> "performance: ", description |-> "optimize load",
                potential_impact |-> "high"]
          [] issue_type = "accessibility" ->
               [prefix |-> "accessibility: ", description |-> "follow WCAG",
                potential_impact |-> "high"]
          [] issue_type = "usability" ->
               [prefix |-> "usability: ", description |-> "enlarge targets",
                potential_impact |-> "medium"]
          [] issue_type = "journey_error" ->
               [prefix |-> "journey: ", description |-> "fix the error",
                potential_impact |-> "high"]
          [] OTHER ->
               [prefix |-> "general: ", description |-> "improve experience",
                potential_impact |-> "medium"]
  IN [priority |-> rank,
      title |-> <<template.prefix>> \o issue.title,
      description |-> template.description,
      related_issue |-> issue.title,
      potential_impact |-> template.potential_impact]

\* Recommendations numbered with the 0-based index of enumerate.
RecommendationsZeroBased(sorted_issues) ==
  [k \in 1..Min(TopN, Len(sorted_issues)) |-> Recommendation(k - 1, sorted_issues[k])]

\* 5. the recommendations of the first five issues of the sorted list
Recommendations(sorted_issues) ==
  [k \in 1..Min(TopN, Len(sorted_issues)) |-> Recommendation(k, sorted_issues[k])]

generate_ux_improvement_report(journey_data_arg, analytics_comparison, a11y_results) ==
  LET report0 ==
        [summary |-> [issues_found |-> 0, critical_issues |-> 0,
                      high_priority_issues |-> 0, medium_priority_issues |-> 0,
                      low_priority_issues |-> 0],
         journey_analysis |->
           [path |-> Get(journey_data_arg, "path", <<"N/A">>),
            steps_count |-> Len(Get(journey_data_arg, "steps", <<>>)),
            errors_count |-> Len(Get(journey_data_arg, "errors", <<>>))],
         issues |-> <<>>,
         recommendations |-> <<>>]
      insights == Get(Get(analytics_comparison, "comparison", EmptyDict), "insights", <<>>)
      violations == Get(Get(a11y_results, "results", EmptyDict), "mainViolations", <<>>)
      r1 == IssuesFromInsights(report0, insights)
      r2 == IssuesFromViolations(r1, violations)
      r3 == IssuesFromErrors(r2, Get(journey_data_arg, "errors", <<>>))
      r4 == IssuesFromUiMetrics(r3, Get(journey_data_arg, "ui_metrics", EmptyDict))
  IN [success |-> TRUE,
      report |-> [r4 EXCEPT !.recommendations = Recommendations(SortedIssues(r4.issues))]]

\* The days a report can be generated on (datetime.now() in the title).
Dates == {"day1", "day2"}

\* A report that adds its issues to the insights it was given.
ArgsWithIssuesAsInsights(args, rep) ==
  [args EXCEPT !.analytics_comparison.comparison.insights = @ \o rep.issues]

\* The arguments after a call: the function reads them with get and builds
\* its issues and recommendations as new dicts and lists.
ArgsAfterReport(args, rep) == args

\* A call of generate_ux_improvement_report on the drawn arguments, the first
\* or the second on them; the clock does not run backwards between the two.
GenerateReport ==
  /\ rin # EmptyDict
  /\ previous = EmptyDict
  /\ \E today \in Dates :
       LET rep == generate_ux_improvement_report(rin.journey_data, rin.analytics_comparison,
                                                 rin.a11y_results).report
       IN /\ report # EmptyDict /\ today = "day1" => report.title = <<"UX report - ", "day1">>
          /\ report' = Update(rep, [title |-> <<"UX report - ", today>>])
          /\ previous' = report
          /\ rin' = ArgsAfterReport(rin, rep)
  /\ UNCHANGED <<scenario, pc, i, journey_data, calls, result, analyticsVars, captureVars,
                 runs, procs, toolVars>>

InitReport ==
  /\ scenario = <<>>
  /\ pc = "idle"
  /\ i = 1
  /\ journey_data = NewJourneyData
  /\ calls = <<>>
  /\ result = EmptyDict
  /\ \E n \in InputLengths :
       \E ins \in [1..n[1] -> InsightValues], v \in [1..n[2] -> ViolationValues],
          e \in [1..n[3] -> ErrorValues], u \in UiMetricsInputs :
         rin = ReportArgs(ins, v, e, u)
  /\ report = EmptyDict
  /\ previous = EmptyDict
  /\ analytics_integrator = None
  /\ queries = <<>>
  /\ cmp_result = EmptyDict
  /\ analysis = EmptyDict
  /\ InitRest

NextReport == GenerateReport

SpecReport == InitReport /\ [][NextReport]_vars

\* ------------------------------- compare_user_journey_with_analytics

\* query_analytics_data catches every fault of the client: it returns the rows,
\* or a failure with a message.
QuerySuccess(rows) ==
  [success |-> TRUE, message |-> "query ok", row_count |-> Len(rows), data |-> rows]

QueryFailure == [success |-> FALSE, message |-> "query error"]

\* Query (1), the GA data.
GaResults ==
  { QueryFailure, QuerySuccess(<<>>), QuerySuccess(<<[page_path |-> "/shop", sessions |-> 7]>>) }

\* Query (2), the average time per page, in seconds, longest first.
TimeResults ==
  { QueryFailure, QuerySuccess(<<>>),
    QuerySuccess(<<[page_path |-> "/shop", avg_time_seconds |-> 0]>>),
    QuerySuccess(<<[page_path |-> "/shop", avg_time_seconds |-> 50]>>),
    QuerySuccess(<<[page_path |-> "/shop", avg_time_seconds |-> 50],
                   [page_path |-> "/shop/cart", avg_time_seconds |-> 10]>>),
    QuerySuccess(<<[page_path |-> "/shop"]>>) }

\* Query (3), the bounce rate per page, in hundredths, highest first.
BounceResults ==
  { QueryFailure, QuerySuccess(<<>>),
    QuerySuccess(<<[page_path |-> "/shop", bounce_rate |-> 40]>>),
    QuerySuccess(<<[page_path |-> "/shop", bounce_rate |-> 50]>>),
    QuerySuccess(<<[page_path |-> "/shop", bounce_rate |-> 60],
                   [page_path |-> "/shop/cart", bounce_rate |-> 40]>>) }

\* What the three queries answer when they are issued.
QueryOutcomes == GaResults \X TimeResults \X BounceResults

QueryNames == <<"ga_query", "time_query", "bounce_query">>

\* The first n queries, as issued.
QueryLog(q, n) == [k \in 1..n |-> [query |-> QueryNames[k], resp |-> q[k]]]

\* A result with rows: success, a data field, and a non-empty list in it.
HasRows(results) ==
  /\ Get(results, "success", FALSE)
  /\ "data" \in DOMAIN results
  /\ results.data # <<>>

Insight(type, severity, title) == [type |-> type, severity |-> severity, title |-> <<title>>]

\* 1. the time insight.  journey_time > avg_time * 1.5 is compared as
\* 2 * journey_time > 3 * avg_time, and journey_time < avg_time * 0.5 as
\* 2 * journey_time < avg_time.  The description of the high insight divides
\* by avg_time: exc is the ZeroDivisionError.
TimeInsights(jd, time_results) ==
  IF HasRows(time_results)
    THEN LET avg_time == Get(time_results.data[1], "avg_time_seconds", 0)
             journey_time == Get(jd, "duration", 0)
         IN IF 2 * journey_time > 3 * avg_time
              THEN IF avg_time = 0
                     THEN [exc |-> TRUE, insights |-> <<>>]
                     ELSE [exc |-> FALSE,
                           insights |-> <<Insight("time_insight", "high",
                                                  "journey far above average")>>]
            ELSE IF 2 * journey_time < avg_time
              THEN [exc |-> FALSE,
                    insights |-> <<Insight("time_insight", "medium",
                                           "journey far below average")>>]
            ELSE [exc |-> FALSE, insights |-> <<>>]
    ELSE [exc |-> FALSE, insights |-> <<>>]

\* 2. the bounce insight: bounce_rate > 0.5
BounceInsights(bounce_results) ==
  IF HasRows(bounce_results) /\ Get(bounce_results.data[1], "bounce_rate", 0) > 50
    THEN <<Insight("bounce_insight", "high", "high bounce rate")>>
    ELSE <<>>

\* 3. the insights of ui_metrics.  The description of the slow-load insight
\* reads bounce_results['data'][0]: exc is the KeyError or IndexError of a
\* result without rows.
UiInsights(jd, bounce_results) ==
  LET ui_metrics == Get(jd, "ui_metrics", EmptyDict)
      performance == Get(ui_metrics, "performance", EmptyDict)
      clickable == Get(ui_metrics, "clickableMetrics", EmptyDict)
      slow == /\ ui_metrics # EmptyDict
              /\ performance # EmptyDict
              /\ Get(performance, "loadTimeMs", 0) > 3000
      small == /\ ui_metrics # EmptyDict
               /\ "clickableMetrics" \in DOMAIN ui_metrics
               /\ 10 * Get(clickable, "smallTargets", 0) > 3 * Max(Get(clickable, "total", 1), 1)
  IN IF slow /\ ~("data" \in DOMAIN bounce_results /\ bounce_results.data # <<>>)
       THEN [exc |-> TRUE, insights |-> <<>>]
       ELSE [exc |-> FALSE,
             insights |->
               (IF slow THEN <<Insight("performance_insight", "high", "slow page load")>>
                        ELSE <<>>)
               \o (IF small THEN <<Insight("usability_insight", "medium", "small click targets")>>
                            ELSE <<>>)]

\* A comparison that goes on after a failed GA query.
GaNeverFailed(ga_results) == FALSE

\* if not ga_results.get("success", False)
GaFailed(ga_results) == ~Get(ga_results, "success", FALSE)

\* compare_user_journey_with_analytics(journey_data, page_path) when the
\* queries answer q: the result, or exc when a fault escapes the call, and the
\* number of queries issued.
compare_user_journey_with_analytics(jd, page_path, q) ==
  LET ga_results == q[1]
      time_results == q[2]
      bounce_results == q[3]
  IN
  IF GaFailed(ga_results)
    THEN [exc |-> FALSE, issued |-> 1,
          result |-> [success |-> FALSE, message |-> "GA query failed"]]
  ELSE
    LET derive == Get(ga_results, "success", FALSE) /\ "data" \in DOMAIN ga_results
        time == IF derive THEN TimeInsights(jd, time_results)
                          ELSE [exc |-> FALSE, insights |-> <<>>]
        bounce == IF derive THEN BounceInsights(bounce_results) ELSE <<>>
        ui == UiInsights(jd, bounce_results)
        comparison ==
          [page_path |-> page_path,
           analytics |-> [ga_data |-> Get(ga_results, "data", <<>>),
                          time_data |-> Get(time_results, "data", <<>>),
                          bounce_data |-> Get(bounce_results, "data", <<>>)],
           automation |-> [journey_steps |-> Get(jd, "steps", <<>>),
                           journey_duration_seconds |-> Get(jd, "duration", 0),
                           errors_encountered |-> Get(jd, "errors", <<>>),
                           ui_metrics |-> Get(jd, "ui_metrics", EmptyDict)],
           insights |-> time.insights \o bounce \o ui.insights]
    IN IF time.exc \/ ui.exc
         THEN [exc |-> TRUE, issued |-> 3, result |-> Raise]
         ELSE [exc |-> FALSE, issued |-> 3,
               result |-> [success |-> TRUE, message |-> "comparison done",
                           comparison |-> comparison]]

\* ------------------------------------------------------- analyze_journey

\* urlparse(url).path: "u1" and "u3" are URLs with a path, "u2" is a URL of a
\* host alone, and None parses to an empty path.
UrlPath(url) ==
  CASE url = "u1" -> "/shop"
    [] url = "u3" -> "/login"
    [] OTHER -> ""

RECURSIVE FirstUrlPath(_)
\* The path of the first navigate or login step that has a url field; the loop
\* breaks there, whatever the path is.
FirstUrlPath(steps) ==
  IF steps = <<>> THEN None
  ELSE LET step == Head(steps) IN
       IF step.type \in {"navigate", "login"} /\ "url" \in DOMAIN step
         THEN UrlPath(step.url)
         ELSE FirstUrlPath(Tail(steps))

\* A scenario that takes any collaborator for a configured one.
AlwaysConfigured(integrator) == TRUE

\* if not self.analytics_integrator: the guard of analyze_journey, negated.
Configured(integrator) == integrator # None

\* analyze_journey(page_path) on a scenario with this collaborator and
\* journey_data jd, when the queries answer q.
analyze_journey(integrator, jd, page_path, q) ==
  IF ~Configured(integrator)
    THEN [exc |-> FALSE, issued |-> 0,
          result |-> [success |-> FALSE, message |-> "no analytics_integrator"]]
  ELSE
    LET path == IF ~Truthy(page_path) /\ jd.steps # <<>>
                  THEN LET found == FirstUrlPath(jd.steps) IN
                       IF found = None THEN page_path ELSE found
                  ELSE page_path
    IN
    IF ~Truthy(path)
      THEN [exc |-> FALSE, issued |-> 0,
            result |-> [success |-> FALSE, message |-> "no page path"]]
    ELSE IF integrator = None
      THEN [exc |-> TRUE, issued |-> 0, result |-> Raise]
    ELSE
      LET c == compare_user_journey_with_analytics(jd, path, q) IN
      IF c.exc THEN [exc |-> TRUE, issued |-> c.issued, result |-> Raise]
      ELSE IF ~Get(c.result, "success", FALSE)
        THEN [exc |-> FALSE, issued |-> c.issued,
              result |-> [success |-> FALSE, message |-> "journey analysis failed"]]
      ELSE
        LET report_result ==
              generate_ux_improvement_report(
                jd, c.result, [results |-> Get(jd, "a11y_results", EmptyDict)])
        IN IF ~Get(report_result, "success", FALSE)
             THEN [exc |-> FALSE, issued |-> c.issued,
                   result |-> [success |-> FALSE, message |-> "report failed"]]
             ELSE [exc |-> FALSE, issued |-> c.issued,
                   result |-> [success |-> TRUE, message |-> "analysis done",
                               comparison |-> Get(c.result, "comparison", EmptyDict),
                               report |-> Get(report_result, "report", EmptyDict)]]

\* The journeys an analysis is run on: the steps and errors of a run that is
\* over (none; one page visited; a page of a host alone and a failed click).
AnalyzedRuns ==
  { [steps |-> <<>>, errors |-> <<>>],
    [steps |-> <<[type |-> "navigate", url |-> "u1", success |-> TRUE,
                  message |-> "navigated"]>>,
     errors |-> <<>>],
    [steps |-> <<[type |-> "navigate", url |-> "u2", success |-> TRUE,
                  message |-> "navigated"],
                 [type |-> "click", selector |-> "s1", element_description |-> "element",
                  success |-> FALSE, message |-> "element not found"]>>,
     errors |-> <<[step |-> "click", step_index |-> 1, message |-> "element not found",
                   element |-> "s1"]>>] }

\* journey_data.duration, in seconds.
Durations == {0, 24, 25, 75, 76}

\* journey_data of a scenario that has run, with the metrics and the audit of
\* its last analyze_page step, and of one that has not.
JourneyInputs ==
  { NewJourneyData }
    \cup { [steps |-> run.steps,
            errors |-> run.errors,
            success |-> run.errors = <<>>,
            ui_metrics |-> u,
            a11y_results |-> a,
            screenshots |-> <<>>,
            duration |-> d,
            path |-> Join(UrlsOf(run.steps, {"navigate", "login", "navigate_to_mypage"}))] :
           run \in AnalyzedRuns, u \in UiMetricsInputs,
           a \in {EmptyDict} \cup A11yValues, d \in Durations }

\* The page_path argument of analyze_journey.
PagePaths == {None, "/shop"}

\* A call of compare_user_journey_with_analytics on the journey.
Compare ==
  /\ analytics_integrator # None
  /\ cmp_result = EmptyDict
  /\ analysis = EmptyDict
  /\ \E q \in QueryOutcomes :
       LET c == compare_user_journey_with_analytics(journey_data, "/shop", q) IN
       /\ cmp_result' = c.result
       /\ queries' = queries \o QueryLog(q, c.issued)
  /\ UNCHANGED <<scenario, pc, i, journey_data, calls, result, rin, report, previous,
                 analytics_integrator, analysis, captureVars, runs, procs, toolVars>>

\* A call of analyze_journey.
AnalyzeJourney ==
  /\ cmp_result = EmptyDict
  /\ analysis = EmptyDict
  /\ \E page_path \in PagePaths, q \in QueryOutcomes :
       LET a == analyze_journey(analytics_integrator, journey_data, page_path, q) IN
       /\ analysis' = a.result
       /\ queries' = queries \o QueryLog(q, a.issued)
  /\ UNCHANGED <<scenario, pc, i, journey_data, calls, result, rin, report, previous,
                 analytics_integrator, cmp_result, captureVars, runs, procs, toolVars>>

InitAnalyze ==
  /\ scenario = <<>>
  /\ pc = "idle"
  /\ i = 1
  /\ journey_data \in JourneyInputs
  /\ calls = <<>>
  /\ result = EmptyDict
  /\ rin = EmptyDict
  /\ report = EmptyDict
  /\ previous = EmptyDict
  /\ analytics_integrator \in {None, "analytics"}
  /\ queries = <<>>
  /\ cmp_result = EmptyDict
  /\ analysis = EmptyDict
  /\ InitRest

NextAnalyze == Compare \/ AnalyzeJourney

SpecAnalyze == InitAnalyze /\ [][NextAnalyze]_vars

\* ------------------------ browser_capture_full_page_screenshot

\* The scrollWidth and scrollHeight the page can have.
PageDimensions ==
  { [width |-> w, height |-> h] : w \in {1280, 1920}, h \in {720, 2000, 5000} }

\* The output_path argument.
OutputPaths == {None, "shot.png"}

\* except Exception as e: the call returns a failure; nothing else is done.
CaptureFailure(c) ==
  [pc |-> "returned",
   output_path |-> c.output_path,
   resized |-> Get(c, "resized", FALSE),
   result |-> [success |-> FALSE, message |-> "capture error"]]

\* The call, up to the answer of the evaluate that measures the page: the
\* dimensions, or a fault.
CaptureMeasure ==
  /\ capture.pc \in {"idle", "returned"}
  /\ \E output_path \in OutputPaths :
       \/ \E d \in PageDimensions :
            capture' = [pc |-> "measured", output_path |-> output_path,
                        page_dimensions |-> d, resized |-> FALSE]
       \/ capture' = CaptureFailure([output_path |-> output_path])
  /\ UNCHANGED <<scenario, pc, i, journey_data, calls, result, rin, report, previous,
                 analyticsVars, viewport, runs, procs, toolVars>>

\* set_viewport_size(page_dimensions) answers: the viewport has the size of
\* the page, or the call raised.
CaptureResize ==
  /\ capture.pc = "measured"
  /\ \/ /\ viewport' = capture.page_dimensions
        /\ capture' = [capture EXCEPT !.pc = "resized", !.resized = TRUE]
     \/ /\ capture' = CaptureFailure(capture)
        /\ UNCHANGED viewport
  /\ UNCHANGED <<scenario, pc, i, journey_data, calls, result, rin, report, previous,
                 analyticsVars, runs, procs, toolVars>>

\* screenshot(...) answers.  Without output_path the binary is encoded with
\* base64.b64encode, and the module does not import base64: a NameError.
CaptureShoot ==
  /\ capture.pc = "resized"
  /\ \/ capture' = CaptureFailure(capture)
     \/ capture' = IF capture.output_path = None
                     THEN CaptureFailure(capture)
                     ELSE [capture EXCEPT !.pc = "shot"]
  /\ UNCHANGED <<scenario, pc, i, journey_data, calls, result, rin, report, previous,
                 analyticsVars, viewport, runs, procs, toolVars>>

\* set_viewport_size of the default size answers, and the call returns.
CaptureRestore ==
  /\ capture.pc = "shot"
  /\ \/ /\ viewport' = DefaultViewport
        /\ capture' = [pc |-> "returned",
                       output_path |-> capture.output_path,
                       resized |-> capture.resized,
                       result |-> [success |-> TRUE, message |-> "captured",
                                   file_path |-> capture.output_path, data |-> None,
                                   dimensions |-> capture.page_dimensions]]
     \/ /\ capture' = CaptureFailure(capture)
        /\ UNCHANGED viewport
  /\ UNCHANGED <<scenario, pc, i, journey_data, calls, result, rin, report, previous,
                 analyticsVars, runs, procs, toolVars>>

NextCapture == CaptureMeasure \/ CaptureResize \/ CaptureShoot \/ CaptureRestore

SpecCapture == Init /\ [][NextCapture]_vars

\* ------------------------------------ LLMToolIntegration.handle_tool_call

\* The number of tool calls one LLMToolIntegration handles.
MaxCalls == 2

BigQueryTools == {"run_bigquery", "explore_bigquery_dataset", "get_bigquery_suggestions"}

\* The tool names a call can carry; the last one is not a registered tool.
ToolNames == BigQueryTools \cup {"execute_web_journey", "analyze_web_journey", "send_mail"}

\* What a method of bigquery_tool does: it returns its result, or raises.
BigQueryReturns == { [success |-> TRUE, message |-> "rows"], Raise }

\* The scenario parameter of execute_web_journey.
ToolScenarios ==
  { <<>>,
    <<[action |-> "take_screenshot"]>>,
    <<[action |-> "analyze_page"]>>,
    <<[action |-> "navigate"]>>,
    <<[action |-> "click", selector |-> "s1", critical |-> TRUE],
      [action |-> "navigate", url |-> "u1"]>> }

\* The outcomes of the collaborator calls of every step of a scenario.
StepOutcomes(s) ==
  LET all == UNION { Outcomes(s[k]) : k \in 1..Len(s) } IN
  { os \in [1..Len(s) -> all] : \A k \in 1..Len(s) : os[k] \in Outcomes(s[k]) }

\* The seconds a run takes.
ToolDurations == {76}

\* What the three queries answer during analyze_web_journey.
ToolQueryOutcomes ==
  { <<QueryFailure, QueryFailure, QueryFailure>>,
    <<QuerySuccess(<<[page_path |-> "/shop", sessions |-> 7]>>),
      QueryFailure, QueryFailure>>,
    <<QuerySuccess(<<[page_path |-> "/shop", sessions |-> 7]>>),
      QuerySuccess(<<[page_path |-> "/shop", avg_time_seconds |-> 50]>>),
      QuerySuccess(<<[page_path |-> "/shop", bounce_rate |-> 60],
                     [page_path |-> "/shop/cart", bounce_rate |-> 40]>>)>>,
    <<QuerySuccess(<<[page_path |-> "/shop", sessions |-> 7]>>),
      QuerySuccess(<<[page_path |-> "/shop", avg_time_seconds |-> 0]>>),
      QuerySuccess(<<>>)>> }

\* A reset that empties steps alone.
ResetStepsOnly(jd) == [jd EXCEPT !.steps = <<>>]

\* The start of execute_scenario: steps and errors are emptied.
ResetRun(jd) == [jd EXCEPT !.steps = <<>>, !.errors = <<>>]

RECURSIVE RunLoop(_, _, _, _)
\* The loop of execute_scenario from step k on, run to its end or its break.
RunLoop(jd, s, k, os) ==
  IF k > Len(s) THEN [exc |-> FALSE, jd |-> jd]
  ELSE LET r == execute_step(jd, s[k], os[k]) IN
       IF r.exc THEN [exc |-> TRUE, jd |-> r.jd]
       ELSE IF ShouldAbort(r.step_data, s[k]) THEN [exc |-> FALSE, jd |-> r.jd]
       ELSE RunLoop(r.jd, s, k + 1, os)

\* The end of execute_scenario after d seconds: the update of journey_data
\* and the returned result, or the TypeError of the join when a url is None.
CompleteRun(jd, d) ==
  LET urls == JourneyUrls(jd) IN
  IF \E k \in 1..Len(urls) : urls[k] = None
    THEN [exc |-> TRUE, jd |-> jd, result |-> Raise]
    ELSE LET done == Update(jd, [duration |-> d,
                                 success |-> ScenarioSuccess(jd),
                                 path |-> Join(urls)])
         IN [exc |-> FALSE, jd |-> done,
             result |-> [success |-> done.success, message |-> "scenario done"]]

\* execute_scenario(scenario) run from its call to its return.
execute_scenario(jd, s, os, d) ==
  LET l == RunLoop(ResetRun(jd), s, 1, os) IN
  IF l.exc THEN [exc |-> TRUE, jd |-> l.jd, result |-> Raise]
  ELSE CompleteRun(l.jd, d)

\* An integration that builds a JourneyScenario on every call.
AlwaysNeedsScenario(js) == TRUE

\* if not self.journey_scenario
NeedsScenario(js) == js = None

\* except Exception as e: the fault becomes the result of the call.
CaughtByHandler(r) ==
  IF r = Raise THEN [success |-> FALSE, message |-> "tool call error"] ELSE r

\* What tool_log keeps of a call: the tool, what the call gave back, whether a
\* fault was raised inside it, the queries it issued, whether it built the
\* JourneyScenario and which one (by order of construction, 0 for none) it
\* had when it ended.
ToolLogEntry(tool_name, r, issued, created, instance) ==
  [tool_name |-> tool_name,
   success |-> Get(CaughtByHandler(r), "success", FALSE),
   message |-> "message" \in DOMAIN CaughtByHandler(r),
   raised |-> CaughtByHandler(r) = Raise,
   fault |-> r = Raise,
   issued |-> issued,
   created |-> created,
   instance |-> instance]

\* The three BigQuery tools: the result of bigquery_tool, or its fault caught.
ToolBigQuery(tool_name) ==
  /\ tool_name \in BigQueryTools
  /\ \E r \in BigQueryReturns :
       /\ result' = CaughtByHandler(r)
       /\ tool_log' = Append(tool_log, ToolLogEntry(tool_name, r, 0, FALSE, constructed))
  /\ UNCHANGED <<journey_data, journey_scenario, constructed, analytics_integrator,
                 queries, runs>>

\* execute_web_journey: the JourneyScenario is built when there is none (the
\* construction may raise), then the scenario is run on it.
ToolExecuteWebJourney(tool_name) ==
  /\ tool_name = "execute_web_journey"
  /\ \/ /\ NeedsScenario(journey_scenario)
        /\ result' = CaughtByHandler(Raise)
        /\ tool_log' = Append(tool_log, ToolLogEntry(tool_name, Raise, 0, FALSE, constructed))
        /\ UNCHANGED <<journey_data, journey_scenario, constructed, analytics_integrator,
                       queries, runs>>
     \/ \E s \in ToolScenarios, d \in ToolDurations :
          \E os \in StepOutcomes(s) :
            LET fresh == NeedsScenario(journey_scenario)
                jd == IF fresh THEN NewJourneyData ELSE journey_data
                r == execute_scenario(jd, s, os, d)
                n == IF fresh THEN constructed + 1 ELSE constructed
            IN /\ journey_scenario' = "JourneyScenario"
               /\ constructed' = n
               /\ analytics_integrator' = "analytics"
               /\ journey_data' = r.jd
               /\ runs' = IF fresh THEN 1 ELSE runs + 1
               /\ result' = CaughtByHandler(r.result)
               /\ tool_log' = Append(tool_log, ToolLogEntry(tool_name, r.result, 0, fresh, n))
               /\ UNCHANGED queries

\* analyze_web_journey: a failure when there is no JourneyScenario, else its
\* analyze_journey.
ToolAnalyzeWebJourney(tool_name) ==
  /\ tool_name = "analyze_web_journey"
  /\ IF ~Truthy(journey_scenario)
       THEN /\ result' = [success |-> FALSE, message |-> "run execute_web_journey first"]
            /\ tool_log' = Append(tool_log, ToolLogEntry(tool_name, result', 0, FALSE, constructed))
            /\ UNCHANGED queries
       ELSE \E page_path \in PagePaths, q \in ToolQueryOutcomes :
              LET a == analyze_journey(analytics_integrator, journey_data, page_path, q) IN
              /\ result' = CaughtByHandler(a.result)
              /\ queries' = queries \o QueryLog(q, a.issued)
              /\ tool_log' = Append(tool_log,
                                    ToolLogEntry(tool_name, a.result, a.issued, FALSE,
                                                 constructed))
  /\ UNCHANGED <<journey_data, journey_scenario, constructed, analytics_integrator, runs>>

\* Any other tool name.
ToolUnknown(tool_name) ==
  /\ tool_name \notin BigQueryTools \cup {"execute_web_journey", "analyze_web_journey"}
  /\ result' = [success |-> FALSE, message |-> "unknown tool name"]
  /\ tool_log' = Append(tool_log, ToolLogEntry(tool_name, result', 0, FALSE, constructed))
  /\ UNCHANGED <<journey_data, journey_scenario, constructed, analytics_integrator,
                 queries, runs>>

\* One handle_tool_call, from the call to its return.
HandleToolCall ==
  /\ Len(tool_log) < MaxCalls
  /\ \E tool_name \in ToolNames :
       \/ ToolBigQuery(tool_name)
       \/ ToolExecuteWebJourney(tool_name)
       \/ ToolAnalyzeWebJourney(tool_name)
       \/ ToolUnknown(tool_name)
  /\ UNCHANGED <<scenario, pc, i, calls, rin, report, previous, cmp_result, analysis,
                 captureVars, procs>>

NextTools == HandleToolCall

SpecTools == Init /\ [][NextTools]_vars

\* ------------------------- execute_scenario runs that interleave

\* The steps of the interleaved runs; each has a collaborator call, so each
\* execute_step has a suspension point before it touches the record.
ConcurrentSteps ==
  { [action |-> "navigate", url |-> "u1"],
    [action |-> "click", selector |-> "s1", scroll_into_view |-> FALSE,
     critical |-> TRUE] }

ConcurrentScenarios == UNION { [1..n -> ConcurrentSteps] : n \in 0..MaxSteps }

\* The end of a run of p on the record jd: lines 309-325, without a
\* suspension point.
FinishRun(p, jd) ==
  \E d \in ToolDurations :
    LET c == CompleteRun(jd, d) IN
    /\ journey_data' = c.jd
    /\ procs' = [procs EXCEPT ![p].pc = IF c.exc THEN "raised" ELSE "done"]

\* p calls execute_scenario: the code up to the first suspension point, which
\* is the first collaborator call of the first step, or the return when the
\* scenario is empty.
StartRun(p) ==
  /\ procs[p].pc = "idle"
  /\ \E s \in ConcurrentScenarios :
       IF Len(s) = 0
         THEN /\ \E d \in ToolDurations :
                   journey_data' = CompleteRun(ResetRun(journey_data), d).jd
              /\ procs' = [procs EXCEPT ![p] = [pc |-> "done", scenario |-> s, i |-> 1]]
         ELSE /\ journey_data' = ResetRun(journey_data)
              /\ procs' = [procs EXCEPT ![p] = [pc |-> "step", scenario |-> s, i |-> 1]]
  /\ UNCHANGED <<scenario, pc, i, calls, result, rin, report, previous, analyticsVars,
                 captureVars, runs, toolVars>>

\* The last collaborator call of p's current step answers: the rest of
\* execute_step, the break test, and either the end of the run or the sleep.
StepOf(p) ==
  /\ procs[p].pc = "step"
  /\ LET step == procs[p].scenario[procs[p].i] IN
     \E o \in Outcomes(step) :
       LET r == execute_step(journey_data, step, o) IN
       IF r.exc
         THEN /\ journey_data' = r.jd
              /\ procs' = [procs EXCEPT ![p].pc = "raised"]
         ELSE IF ShouldAbort(r.step_data, step)
           THEN FinishRun(p, r.jd)
           ELSE /\ journey_data' = r.jd
                /\ procs' = [procs EXCEPT ![p].pc = "sleep"]
  /\ UNCHANGED <<scenario, pc, i, calls, result, rin, report, previous, analyticsVars,
                 captureVars, runs, toolVars>>

\* The sleep of p is over: the next step up to its first collaborator call,
\* or the end of the run.
WakeOf(p) ==
  /\ procs[p].pc = "sleep"
  /\ IF procs[p].i = Len(procs[p].scenario)
       THEN FinishRun(p, journey_data)
       ELSE /\ procs' = [procs EXCEPT ![p].pc = "step", ![p].i = @ + 1]
            /\ UNCHANGED journey_data
  /\ UNCHANGED <<scenario, pc, i, calls, result, rin, report, previous, analyticsVars,
                 captureVars, runs, toolVars>>

NextConcurrent == \E p \in RunIds : StartRun(p) \/ StepOf(p) \/ WakeOf(p)

SpecConcurrent == Init /\ [][NextConcurrent]_vars

\* ------------------------------------------------------ claims C1 .. C6

Steps == journey_data.steps

Errors == journey_data.errors

Critical(k) == Get(scenario[k], "critical", FALSE)

Failed(k) == ~Get(Steps[k], "success", FALSE)

\* The calls of the log that belong to step k, in order.
CallsOf(k) == SelectSeq(calls, LAMBDA c : c.step = k)

RaisedIn(k) == \E c \in 1..Len(calls) : calls[c].step = k /\ calls[c].resp = Raise

RECURSIVE FailedFrom(_)
\* The indices of the failed steps from k on, in order.
FailedFrom(k) ==
  IF k > Len(Steps) THEN <<>>
  ELSE (IF Failed(k) THEN <<k>> ELSE <<>>) \o FailedFrom(k + 1)

\* C1: after execute_scenario returns, errors holds one ErrorEntry per failed
\* step and none for a successful one: the k-th entry's step_index is the
\* (0-based) index in steps of the k-th failed step, and it carries that step's
\* action kind.
C1_ErrorsMatchFailedSteps ==
  pc = "done" =>
    LET f == FailedFrom(1) IN
    /\ Len(Errors) = Len(f)
    /\ \A k \in 1..Len(f) :
         /\ Errors[k].step_index = f[k] - 1
         /\ Errors[k].step = Steps[f[k]].type
         /\ Errors[k].step = StepType(scenario[f[k]])

\* A run whose first step succeeded and whose second step failed.
C1_Witness ==
  /\ pc = "done"
  /\ Len(Steps) = 2
  /\ ~Failed(1)
  /\ Failed(2)
  /\ Len(Errors) = 1
  /\ Errors[1].step_index = 1

\* C2: once a critical step has failed it is the last element of steps, the
\* run is over, and no call, StepResult or ErrorEntry exists for a later step.
C2_NoStepAfterCriticalFailure ==
  \A k \in 1..Len(Steps) :
    (Failed(k) /\ Critical(k)) =>
      /\ k = Len(Steps)
      /\ pc \in {"done", "raised"}
      /\ \A c \in 1..Len(calls) : calls[c].step <= k
      /\ \A e \in 1..Len(Errors) : Errors[e].step_index <= k - 1

\* A critical first step failed and the scenario had a second step.
C2_Witness ==
  /\ Len(scenario) = 2
  /\ Len(Steps) = 1
  /\ Failed(1)
  /\ Critical(1)
  /\ pc = "done"

\* C3: when execute_scenario returns, journey_data.success is
\* (len(errors) == 0) and the result carries the same flag; the empty scenario
\* returns success with no steps and no errors.
C3_SuccessIffNoErrors ==
  pc = "done" =>
    /\ journey_data.success = (Len(Errors) = 0)
    /\ result.success = journey_data.success
    /\ scenario = <<>> =>
         /\ journey_data.success
         /\ Steps = <<>>
         /\ Errors = <<>>

\* A run that returned after a non-critical step failed.
C3_Witness ==
  /\ pc = "done"
  /\ Len(Errors) > 0
  /\ ~result.success
  /\ Len(Steps) = Len(scenario)

KnownActions ==
  {"navigate", "click", "input", "wait", "scroll", "take_screenshot",
   "analyze_page", "login", "navigate_to_mypage"}

\* C4: every execute_step call returns: it appends exactly one StepResult,
\* whose success is a boolean; a raised fault or an unknown (or missing) action
\* gives success false with a message, and an unknown action issues no
\* collaborator call.
C4_ExecuteStepTotal ==
  [][pc = "step" =>
       LET steps2 == journey_data'.steps
           new == SubSeq(calls', Len(calls) + 1, Len(calls'))
           last == steps2[Len(steps2)]
           fails == /\ "success" \in DOMAIN last
                    /\ last.success = FALSE
                    /\ "message" \in DOMAIN last
                    /\ last.message # ""
       IN /\ pc' # "step_raised"
          /\ Len(steps2) = Len(Steps) + 1
          /\ SubSeq(steps2, 1, Len(Steps)) = Steps
          /\ "success" \in DOMAIN last
          /\ last.success \in BOOLEAN
          /\ last.type = StepType(scenario[i])
          /\ (\E c \in 1..Len(new) : new[c].resp = Raise) => fails
          /\ StepType(scenario[i]) \notin KnownActions => (fails /\ new = <<>>)
  ]_vars

\* A collaborator fault in the first step and a step without an action after it.
C4_Witness ==
  /\ Len(Steps) = 2
  /\ RaisedIn(1)
  /\ Failed(1)
  /\ Steps[2].type = None
  /\ Failed(2)
  /\ CallsOf(2) = <<>>

\* The index the run stops at: the first recorded step that failed and is
\* critical, or the last index of the scenario.
StopIndex ==
  LET crit == { k \in 1..Len(Steps) : Failed(k) /\ Critical(k) } IN
  IF crit = {} THEN Len(scenario)
  ELSE CHOOSE k \in crit : \A j \in crit : k <= j

\* C5: when the run is over, steps holds the results of scenario[1..m] in
\* input order, one per step, m being the first failed critical step or the
\* end of the scenario; the calls were issued in that order, and none for a
\* step after m.
C5_StepsAreScenarioPrefix ==
  pc \in {"done", "raised"} =>
    /\ Len(Steps) = StopIndex
    /\ \A k \in 1..Len(Steps) :
         /\ Steps[k].type = StepType(scenario[k])
         /\ "selector" \in DOMAIN Steps[k] =>
              Steps[k].selector = Get(scenario[k], "selector", None)
         /\ Api(scenario[k]) # <<>> =>
              /\ CallsOf(k) # <<>>
              /\ \A j \in 1..Len(CallsOf(k)) : CallsOf(k)[j].api = Api(scenario[k])[j]
    /\ \A c \in 1..Len(calls) :
         /\ calls[c].step \in 1..Len(Steps)
         /\ c > 1 => calls[c - 1].step <= calls[c].step

\* A failed non-critical step followed by a successful critical one.
C5_Witness ==
  /\ pc = "done"
  /\ Len(Steps) = 2
  /\ Failed(1)
  /\ ~Critical(1)
  /\ ~Failed(2)
  /\ Critical(2)

RECURSIVE HistoryUrls(_)
\* The urls the run recorded from step k on, read from the scenario and from
\* what the collaborator returned: a navigate or login step records its own
\* url, a navigate_to_mypage step the url of the result ("" when it has none),
\* unless the collaborator raised.
HistoryUrls(k) ==
  IF k > Len(Steps) THEN <<>>
  ELSE LET t == StepType(scenario[k])
           r == CallsOf(k)[Len(CallsOf(k))].resp
           here == IF RaisedIn(k) THEN <<>>
                   ELSE IF t \in {"navigate", "login"} THEN <<Get(scenario[k], "url", None)>>
                   ELSE IF t = "navigate_to_mypage" THEN <<Get(r, "url", "")>>
                   ELSE <<>>
       IN here \o HistoryUrls(k + 1)

\* What the code does: path joins the url fields of the navigate, login and
\* navigate_to_mypage steps that have one, the empty string of a
\* navigate_to_mypage step whose result carried no url included.
PathJoinsUrlFields ==
  pc = "done" =>
    /\ journey_data.path = Join(HistoryUrls(1))
    /\ \A k \in 1..Len(Steps) :
         "url" \in DOMAIN Steps[k] <=>
           (Steps[k].type \in {"navigate", "login", "navigate_to_mypage"} /\ ~RaisedIn(k))

RECURSIVE RecordedUrls(_)
\* The URLs recorded by the navigate, login and navigate_to_mypage steps from
\* step k on; a step that recorded no URL (no url field, or an empty one) has none.
RecordedUrls(k) ==
  IF k > Len(Steps) THEN <<>>
  ELSE LET step == Steps[k]
           here == IF /\ step.type \in {"navigate", "login", "navigate_to_mypage"}
                      /\ "url" \in DOMAIN step
                      /\ step.url # ""
                     THEN <<step.url>>
                     ELSE <<>>
       IN here \o RecordedUrls(k + 1)

\* C6: at completion path is the " -> "-join, in execution order, of the URLs
\* of the recorded navigate, login and navigate_to_mypage steps that succeeded
\* in recording a URL; a step of another kind, or one of these kinds that did
\* not record a URL, adds no segment, and with no such step path is "".
C6_PathIsJoinedUrls ==
  pc = "done" => journey_data.path = Join(RecordedUrls(1))

\* ----------------------------------------------------- claims C7 .. C10

Generated == report # EmptyDict

Issues == report.issues

Recs == report.recommendations

SevAt(k) == Issues[k].severity_value

\* C7: for every input the returned report has
\* summary.issues_found == len(issues).
C7_IssuesFoundIsLen ==
  Generated => report.summary.issues_found = Len(Issues)

\* A report with issues of all four sources, one of them of a severity outside
\* the four.
C7_Witness ==
  /\ Generated
  /\ Len(Issues) >= 6
  /\ { Issues[k].source : k \in 1..Len(Issues) }
       = {"analytics_comparison", "a11y_audit", "automation", "ui_metrics"}
  /\ \E k \in 1..Len(Issues) : Issues[k].severity = "urgent"
  /\ report.summary.issues_found = Len(Issues)

\* C8: for every input, insights of a severity outside critical/high/medium/
\* low included, the four per-severity counters sum to issues_found and each
\* equals the number of issues of the final list with that severity.
C8_SeverityCountersTally ==
  Generated =>
    LET summary == report.summary
        tally(severity) ==
          Cardinality({ k \in 1..Len(Issues) : Issues[k].severity = severity })
    IN /\ summary.critical_issues + summary.high_priority_issues
            + summary.medium_priority_issues + summary.low_priority_issues
          = summary.issues_found
       /\ summary.critical_issues = tally("critical")
       /\ summary.high_priority_issues = tally("high")
       /\ summary.medium_priority_issues = tally("medium")
       /\ summary.low_priority_issues = tally("low")

\* C9: len(recommendations) == min(5, len(issues)), and the recommendation at
\* (0-based) index i has priority i + 1.
C9_RecommendationCountAndPriority ==
  Generated =>
    /\ Len(Recs) = Min(5, Len(Issues))
    /\ DOMAIN Recs = 1..Len(Recs)
    /\ \A k \in 1..Len(Recs) : Recs[k].priority = k

\* More than five issues, five recommendations.
C9_Witness ==
  /\ Generated
  /\ Len(Issues) >= 6
  /\ Len(Recs) = 5
  /\ Recs[5].priority = 5

\* The place of issue k in the stable descending ranking: one more than the
\* number of issues that are more severe, or as severe and earlier in the list.
Rank(k) ==
  1 + Cardinality({ j \in 1..Len(Issues) :
                      \/ SevAt(j) > SevAt(k)
                      \/ (SevAt(j) = SevAt(k) /\ j < k) })

\* C10: recommendation i is about the i-th issue of the stable descending
\* ranking by severity_value (related_issue is that issue's title): no issue
\* without a recommendation is more severe than one with, and among issues of
\* equal severity_value the earlier of the merge order comes first.
C10_RecommendationsFollowStableRanking ==
  Generated =>
    \A k \in 1..Len(Issues) :
      IF Rank(k) <= Len(Recs)
        THEN Recs[Rank(k)].related_issue = Issues[k].title
        ELSE /\ Rank(k) > 5
             /\ \A j \in 1..Len(Issues) : Rank(j) <= Len(Recs) => SevAt(j) >= SevAt(k)

\* The sort moved a later issue ahead of an earlier one, and of two issues of
\* equal severity_value and different titles the earlier got the last
\* recommendation.
C10_Witness ==
  /\ Generated
  /\ Len(Recs) = 5
  /\ \E j, k \in 1..Len(Issues) : j < k /\ SevAt(j) < SevAt(k)
  /\ \E a, b \in 1..Len(Issues) :
       /\ a < b
       /\ SevAt(a) = SevAt(b)
       /\ Issues[a].title # Issues[b].title
       /\ Rank(a) = 5
       /\ Rank(b) = 6
       /\ Recs[5].related_issue = Issues[a].title

\* ---------------------------------------------------- claims C11 .. C14

Compared == cmp_result # EmptyDict

\* The result of the k-th query.
Q(k) == queries[k].resp

JourneyTime == Get(journey_data, "duration", 0)

JourneyUiMetrics == Get(journey_data, "ui_metrics", EmptyDict)

LoadTimeMs == Get(Get(JourneyUiMetrics, "performance", EmptyDict), "loadTimeMs", 0)

\* More than 0.3 of the click targets are small.
ManySmallTargets ==
  /\ "clickableMetrics" \in DOMAIN JourneyUiMetrics
  /\ LET c == JourneyUiMetrics.clickableMetrics IN
     10 * Get(c, "smallTargets", 0) > 3 * Max(Get(c, "total", 1), 1)

\* The type and severity of each insight of a list.
Kinds(insights) == [k \in 1..Len(insights) |-> <<insights[k].type, insights[k].severity>>]

CmpInsights == cmp_result.comparison.insights

\* The time insight the rule gives for the top row of query (2).
ExpectedTime ==
  IF Len(queries) >= 2 /\ HasRows(Q(2))
    THEN LET avg_time == Get(Q(2).data[1], "avg_time_seconds", 0) IN
         IF 2 * JourneyTime > 3 * avg_time THEN << <<"time_insight", "high">> >>
         ELSE IF 2 * JourneyTime < avg_time THEN << <<"time_insight", "medium">> >>
         ELSE <<>>
    ELSE <<>>

\* The bounce insight the rule gives for the top row of query (3).
ExpectedBounce ==
  IF Len(queries) >= 3 /\ HasRows(Q(3)) /\ Get(Q(3).data[1], "bounce_rate", 0) > 50
    THEN << <<"bounce_insight", "high">> >>
    ELSE <<>>

\* The insights the rules give for ui_metrics.
ExpectedUi ==
  (IF LoadTimeMs > 3000 THEN << <<"performance_insight", "high">> >> ELSE <<>>)
    \o (IF ManySmallTargets THEN << <<"usability_insight", "medium">> >> ELSE <<>>)

\* The top row of query (2) is 0 seconds and the journey took longer.
ZeroAverage ==
  /\ Len(queries) >= 2
  /\ HasRows(Q(2))
  /\ Get(Q(2).data[1], "avg_time_seconds", 0) = 0
  /\ JourneyTime > 0

\* C11: if query (1) fails, compare_user_journey_with_analytics returns a
\* failure result with no comparison and no insights, whatever the duration
\* and the ui_metrics of the journey, and queries (2) and (3) are not issued.
C11_GaFailureFailsComparison ==
  (Compared /\ ~Get(Q(1), "success", FALSE)) =>
    /\ cmp_result # Raise
    /\ cmp_result.success = FALSE
    /\ "message" \in DOMAIN cmp_result
    /\ "comparison" \notin DOMAIN cmp_result
    /\ "insights" \notin DOMAIN cmp_result
    /\ Len(queries) = 1

\* Query (1) failed on a long journey whose page loads slowly and has small targets.
C11_Witness ==
  /\ Compared
  /\ Q(1) = QueryFailure
  /\ JourneyTime = 76
  /\ LoadTimeMs > 3000
  /\ ManySmallTargets
  /\ cmp_result.success = FALSE

\* C12: when query (1) succeeds and query (2) or (3) fails or has no rows, the
\* comparison still succeeds: only the time insight (query 2) or the bounce
\* insight (query 3) is missing, and every other insight, the slow-load and
\* small-click-target insights included, is emitted as the rules give it.
\* Stated for the calls in which the average of query (2) is not 0.
C12_Query2And3DegradeIndependently ==
  (/\ Compared
   /\ Get(Q(1), "success", FALSE)
   /\ ~HasRows(Q(2)) \/ ~HasRows(Q(3))
   /\ ~ZeroAverage) =>
    /\ Get(cmp_result, "success", FALSE)
    /\ Kinds(CmpInsights) = ExpectedTime \o ExpectedBounce \o ExpectedUi

\* C13: for a query (2) with rows, whatever journey_time >= 0 and avg_time >= 0
\* (0 included): one high time insight when journey_time > 1.5 * avg_time,
\* else one medium time insight when journey_time < 0.5 * avg_time, else none.
\* Stated for the calls in which query (3) has rows.
C13_TimeInsightRule ==
  (/\ Compared
   /\ Get(Q(1), "success", FALSE)
   /\ HasRows(Q(2))
   /\ HasRows(Q(3))) =>
    /\ Get(cmp_result, "success", FALSE)
    /\ Kinds(SelectSeq(CmpInsights, LAMBDA x : x.type = "time_insight")) = ExpectedTime

\* A high bounce insight is in the result of the comparison.
BounceInsightEmitted ==
  /\ Get(cmp_result, "success", FALSE)
  /\ \E k \in 1..Len(CmpInsights) :
       CmpInsights[k].type = "bounce_insight" /\ CmpInsights[k].severity = "high"

BounceRateAboveHalf ==
  /\ Len(queries) = 3
  /\ HasRows(Q(3))
  /\ Get(Q(3).data[1], "bounce_rate", 0) > 50

\* Whenever the comparison returns, it carries a high bounce insight exactly
\* when query (3) has rows and the bounce_rate of its top row is above 0.5.
BounceInsightWhenReturned ==
  (Compared /\ cmp_result # Raise) => (BounceInsightEmitted <=> BounceRateAboveHalf)

\* C14: a high bounce insight is emitted if and only if query (3) succeeded
\* with rows and the bounce_rate of its top row is strictly above 0.5,
\* whatever the duration of the journey and the result of query (2).
C14_BounceInsightRule ==
  Compared => (BounceInsightEmitted <=> BounceRateAboveHalf)

\* ---------------------------------------------------- claims C15 .. C20

Analyzed == analysis # EmptyDict

\* C15: analyze_journey on a scenario built without an analytics collaborator
\* returns {success: false, message} without raising, issues no analytics
\* query and leaves journey_data unchanged, whatever the state of the journey.
C15_AnalyzeWithoutCollaborator ==
  [][(analysis' # analysis /\ analytics_integrator = None) =>
       /\ analysis' # Raise
       /\ DOMAIN analysis' = {"success", "message"}
       /\ analysis'.success = FALSE
       /\ queries' = queries
       /\ journey_data' = journey_data
  ]_vars

\* The analysis of a finished run with steps and errors, without a collaborator.
C15_Witness ==
  /\ Analyzed
  /\ analytics_integrator = None
  /\ Len(journey_data.steps) = 2
  /\ Len(journey_data.errors) = 1
  /\ analysis # Raise
  /\ analysis.success = FALSE
  /\ queries = <<>>

\* C16: execute_scenario returns a {success, message, journey_data} result and
\* never raises, for every scenario whose steps are mappings (url or selector
\* may be absent) and for every outcome of the collaborator calls.
C16_ExecuteScenarioNeverRaises ==
  /\ pc \notin {"raised", "step_raised"}
  /\ pc = "done" =>
       /\ {"success", "message"} \subseteq DOMAIN result
       /\ result.success \in BOOLEAN

\* The lists of a report that the claim of idempotence is about.
Findings(rep) ==
  [issues |-> rep.issues, summary |-> rep.summary, recommendations |-> rep.recommendations]

InInsights == rin.analytics_comparison.comparison.insights

InViolations == rin.a11y_results.results.mainViolations

InErrors == rin.journey_data.errors

InUiMetrics == rin.journey_data.ui_metrics

\* The severity the claim gives a violation.
ClaimedSeverity(violation) ==
  LET impact == Get(violation, "impact", None) IN
  CASE impact = "critical" -> "critical"
    [] impact = "serious" -> "high"
    [] impact = "moderate" -> "medium"
    [] impact = "minor" -> "low"
    [] OTHER -> "medium"

\* C18: every accessibility violation becomes one issue whose severity is
\* critical, high, medium or low for impact critical, serious, moderate or
\* minor, and medium otherwise (another impact, or no impact field), with
\* severity_value 4/3/2/1 matching the severity.
C18_ImpactSeverityMapping ==
  Generated =>
    \A k \in 1..Len(InViolations) :
      LET issue == Issues[Len(InInsights) + k] IN
      /\ issue.source = "a11y_audit"
      /\ issue.severity = ClaimedSeverity(InViolations[k])
      /\ issue.severity_value = (CASE issue.severity = "critical" -> 4
                                   [] issue.severity = "high" -> 3
                                   [] issue.severity = "medium" -> 2
                                   [] issue.severity = "low" -> 1)

\* The title of the issue of a threshold breach of ui_metrics, in the order of
\* the checks: load time above 3000 ms, more than 0.3 of the click targets
\* small, more than 0.1 of them without label, more than 0.2 of the images
\* without alt text.
Breaches ==
  LET c == Get(InUiMetrics, "clickableMetrics", EmptyDict)
      m == Get(InUiMetrics, "imageMetrics", EmptyDict)
      targets == Max(Get(c, "total", 1), 1)
      images == Max(Get(m, "total", 1), 1)
  IN (IF Get(Get(InUiMetrics, "performance", EmptyDict), "loadTimeMs", 0) > 3000
        THEN <<"slow page load">> ELSE <<>>)
     \o (IF "clickableMetrics" \in DOMAIN InUiMetrics
            /\ 10 * Get(c, "smallTargets", 0) > 3 * targets
           THEN <<"small click targets">> ELSE <<>>)
     \o (IF "clickableMetrics" \in DOMAIN InUiMetrics
            /\ 10 * Get(c, "withoutLabels", 0) > targets
           THEN <<"unlabeled click targets">> ELSE <<>>)
     \o (IF "imageMetrics" \in DOMAIN InUiMetrics
            /\ 10 * Get(m, "withoutAlt", 0) > 2 * images
           THEN <<"images without alt text">> ELSE <<>>)

\* C19: the issue list is, in this order, one issue per insight, one per
\* accessibility violation, one high (severity_value 3) issue per journey
\* error and one per threshold breach of ui_metrics: its length is the sum of
\* the four counts, and each source keeps its order.
C19_IssuesAreTheFourSourcesInOrder ==
  Generated =>
    LET a == Len(InInsights)
        b == a + Len(InViolations)
        c == b + Len(InErrors)
    IN /\ Len(Issues) = c + Len(Breaches)
       /\ \A k \in 1..Len(InInsights) :
            /\ Issues[k].source = "analytics_comparison"
            /\ Issues[k].title = Get(InInsights[k], "title", <<"issue">>)
            /\ Issues[k].type = Get(InInsights[k], "type", "general")
       /\ \A k \in 1..Len(InViolations) :
            /\ Issues[a + k].source = "a11y_audit"
            /\ Issues[a + k].title[2] = Get(InViolations[k], "id", "unknown")
       /\ \A k \in 1..Len(InErrors) :
            /\ Issues[b + k].source = "automation"
            /\ Issues[b + k].title[2] = InErrors[k].step
            /\ Issues[b + k].severity = "high"
            /\ Issues[b + k].severity_value = 3
       /\ \A k \in 1..Len(Breaches) :
            /\ Issues[c + k].source = "ui_metrics"
            /\ Issues[c + k].title = <<Breaches[k]>>

\* An insight, a violation, a journey error and the four breaches.
C19_Witness ==
  /\ Generated
  /\ Len(InInsights) = 1
  /\ Len(InViolations) = 1
  /\ Len(InErrors) = 1
  /\ Len(Breaches) = 4
  /\ Len(Issues) = 7
  /\ Issues[1].source = "analytics_comparison"
  /\ Issues[2].source = "a11y_audit"
  /\ Issues[3].source = "automation"
  /\ Issues[4].title = <<"slow page load">>
  /\ Issues[7].title = <<"images without alt text">>

\* C20: the report of the pipeline (the comparison and then the report, on the
\* same journey) has no two issues for the same measured condition: a load
\* time above 3000 ms, or a small-click-target ratio above 0.3, gives one
\* issue with its title, not two.
C20_PipelineFindingsDeduplicated ==
  (Analyzed /\ Get(analysis, "success", FALSE)) =>
    \A t \in {<<"slow page load">>, <<"small click targets">>} :
      Cardinality({ k \in 1..Len(analysis.report.issues) :
                      analysis.report.issues[k].title = t }) <= 1

\* ---------------------------------------------------- claims C21 .. C23

\* The call of step k to this method of the collaborator that returned with
\* success, as a list of at most one response.
Succeeded(k, api) ==
  LET found == SelectSeq(CallsOf(k), LAMBDA c : c.api = api /\ Get(c.resp, "success", FALSE))
  IN [j \in 1..Len(found) |-> found[j].resp]

RECURSIVE LatestProbe(_, _, _)
\* The field of the most recent successful probe among the steps 1..k, or the
\* empty mapping of a new record when there is none.
LatestProbe(k, api, field) ==
  IF k = 0 THEN EmptyDict
  ELSE IF StepType(scenario[k]) = "analyze_page" /\ Succeeded(k, api) # <<>>
    THEN Get(Succeeded(k, api)[1], field, EmptyDict)
    ELSE LatestProbe(k - 1, api, field)

\* No call of an analyze_page step so far has raised.
ProbesReturned ==
  \A k \in 1..Len(Steps) : StepType(scenario[k]) = "analyze_page" => ~RaisedIn(k)

\* Whenever every probe so far has returned, ui_metrics and a11y_results are
\* those of the latest successful probes.
LatestProbesWhenReturned ==
  ProbesReturned =>
    /\ journey_data.ui_metrics = LatestProbe(Len(Steps), "browser_extract_ui_metrics", "metrics")
    /\ journey_data.a11y_results = LatestProbe(Len(Steps), "browser_run_a11y_audit", "results")

\* C21: after any sequence of steps, ui_metrics is the metrics of the most
\* recent analyze_page step whose UI-metrics probe succeeded (replaced whole)
\* and a11y_results the results of the most recent one whose accessibility
\* probe succeeded; a failed probe and a step of another kind leave the field
\* unchanged, whatever the success flag of the analyze_page step.
C21_LatestSuccessfulProbeWins ==
  /\ journey_data.ui_metrics = LatestProbe(Len(Steps), "browser_extract_ui_metrics", "metrics")
  /\ journey_data.a11y_results = LatestProbe(Len(Steps), "browser_run_a11y_audit", "results")

\* The take_screenshot steps among the first k whose capture succeeded.
Captured(k) ==
  { j \in 1..k : Steps[j].type = "take_screenshot" /\ Get(Steps[j], "success", FALSE) }

\* C22: the screenshots have the ids 1, 2, ..., n in order; a take_screenshot
\* step appends one entry if and only if its capture succeeded, the id of the
\* entry is the screenshot_id of the step's StepResult, and no other step
\* changes the sequence.
C22_ScreenshotIdsFollowCaptures ==
  /\ \A n \in 1..Len(journey_data.screenshots) : journey_data.screenshots[n].id = n
  /\ Len(journey_data.screenshots) = Cardinality(Captured(Len(Steps)))
  /\ \A k \in Captured(Len(Steps)) : Steps[k].screenshot_id = Cardinality(Captured(k))

\* C23: success == (len(errors) == 0) holds in every reachable state of a
\* JourneyScenario: after construction, between the steps of a run, after
\* completion.
C23_SuccessInvariant ==
  journey_data.success = (Len(journey_data.errors) = 0)

\* ---------------------------------------------------- claims C24 .. C26

\* C24: the issues list of the returned report is ranked: non-increasing in
\* severity_value, issues of equal severity_value in their merge order.
C24_IssuesListIsRanked ==
  Generated => \A j, k \in 1..Len(Issues) : j < k => SevAt(j) >= SevAt(k)

\* The issues of the report that come from the checks on ui_metrics: title,
\* severity and severity_value of each.
UiFindings ==
  LET found == SelectSeq(Issues, LAMBDA x : x.source = "ui_metrics")
  IN [k \in 1..Len(found) |-> <<found[k].title[1], found[k].severity, found[k].severity_value>>]

\* part / max(total, 1) > p / q, for counts read from a mapping of ui_metrics.
RatioAbove(metrics, part, p, q) ==
  q * Get(metrics, part, 0) > p * Max(Get(metrics, "total", 1), 1)

AIssues == analysis.report.issues

ARecs == analysis.report.recommendations

\* The place of issue k of the analysis in the stable descending ranking.
ARank(k) ==
  1 + Cardinality({ j \in 1..Len(AIssues) :
                      \/ AIssues[j].severity_value > AIssues[k].severity_value
                      \/ (AIssues[j].severity_value = AIssues[k].severity_value /\ j < k) })

\* C26: the issue of a comparator insight keeps the insight's type and its
\* recommendation uses the template of that type: the slow-load insight, when
\* in the top 5, gets the performance template with potential_impact high, and
\* the small-click-target insight the usability template.
C26_InsightRecommendationTemplates ==
  (Analyzed /\ Get(analysis, "success", FALSE)) =>
    \A k \in 1..Len(AIssues) :
      (AIssues[k].source = "analytics_comparison" /\ ARank(k) <= Len(ARecs)) =>
        LET rec == ARecs[ARank(k)] IN
        /\ AIssues[k].title = <<"slow page load">> =>
             /\ rec.title[1] = "performance: "
             /\ rec.potential_impact = "high"
        /\ AIssues[k].title = <<"small click targets">> =>
             rec.title[1] = "usability: "

\* ----------------------------------------------------------- claim C27

\* C27: whenever browser_capture_full_page_screenshot has resized the viewport
\* to the dimensions of the page, the viewport is back at 1280x720 when the
\* call returns, on success and when the capture, or a later step of the
\* call, raises and the call returns a failure.
C27_ViewportRestored ==
  (capture.pc = "returned" /\ capture.resized) => viewport = DefaultViewport

\* Whenever the call returns success, the viewport is the default one.
ViewportRestoredOnSuccess ==
  (capture.pc = "returned" /\ capture.result.success) => viewport = DefaultViewport

\* ----------------------------------------------------- claims C28, C30

\* The last tool call handled.
LastCall == tool_log[Len(tool_log)]

\* execute_web_journey has returned the record of a run that is not the first
\* one on its JourneyScenario.
LaterRunReturned ==
  /\ tool_log # <<>>
  /\ LastCall.tool_name = "execute_web_journey"
  /\ ~LastCall.fault
  /\ runs >= 2

\* The steps of the record that are of this type.
StepsOfType(t) == { k \in DOMAIN journey_data.steps : journey_data.steps[k].type = t }

\* C28: when execute_scenario is run again on the same JourneyScenario, the
\* record the later run returns holds only what that run produced: every
\* screenshot was taken by a take_screenshot step of the run and the ids
\* restart at 1, and ui_metrics and a11y_results are those an analyze_page
\* step of the run stored (none when the run has no such step).
C28_OneRunOneRecord ==
  LaterRunReturned =>
    /\ Len(journey_data.screenshots) <= Cardinality(StepsOfType("take_screenshot"))
    /\ \A k \in StepsOfType("take_screenshot") :
         Get(journey_data.steps[k], "screenshot_id", 1)
           <= Cardinality(StepsOfType("take_screenshot"))
    /\ journey_data.ui_metrics # EmptyDict =>
         \E k \in StepsOfType("analyze_page") :
           Get(journey_data.steps[k], "ui_metrics", EmptyDict) = journey_data.ui_metrics
    /\ journey_data.a11y_results # EmptyDict =>
         \E k \in StepsOfType("analyze_page") :
           Get(journey_data.steps[k], "a11y_results", EmptyDict) = journey_data.a11y_results

\* The steps and the errors of the record a later run returns are those of
\* that run: every error names a failed step of the record.
LaterRunStepsAndErrorsAreItsOwn ==
  LaterRunReturned =>
    \A e \in 1..Len(journey_data.errors) :
      LET idx == journey_data.errors[e].step_index + 1 IN
      /\ idx \in DOMAIN journey_data.steps
      /\ ~journey_data.steps[idx].success

\* An earlier call than the k-th built the JourneyScenario.
CreatedBefore(k) == \E j \in 1..(k - 1) : tool_log[j].created

\* C30: over the tool calls one LLMToolIntegration has handled, no call ends
\* in an exception; analyze_web_journey fails and issues no query unless an
\* earlier execute_web_journey built the JourneyScenario; the JourneyScenario
\* is built at most once, by an execute_web_journey call, and every later
\* execute_web_journey and analyze_web_journey call has that one; an unknown
\* tool name or a fault raised inside the call gives {success: False, message}.
C30_ToolCallProtocol ==
  /\ constructed <= 1
  /\ \A k \in 1..Len(tool_log) :
       LET e == tool_log[k] IN
       /\ ~e.raised
       /\ (e.tool_name = "analyze_web_journey" /\ ~CreatedBefore(k))
            => (~e.success /\ e.issued = 0)
       /\ e.created => (e.tool_name = "execute_web_journey" /\ ~CreatedBefore(k))
       /\ (CreatedBefore(k) \/ e.created) => e.instance = 1
       /\ (e.tool_name \notin BigQueryTools \cup {"execute_web_journey", "analyze_web_journey"}
             \/ e.fault)
            => (~e.success /\ e.message)

\* execute_web_journey built the JourneyScenario and ran a scenario on it, then
\* analyze_web_journey issued its queries on the same one and a fault raised
\* by the comparison came back as a failure result.
C30_Witness ==
  /\ Len(tool_log) = 2
  /\ tool_log[1].tool_name = "execute_web_journey" /\ tool_log[1].created
  /\ tool_log[2].tool_name = "analyze_web_journey"
  /\ tool_log[2].instance = 1
  /\ tool_log[2].issued = 3
  /\ tool_log[2].fault
  /\ result = [success |-> FALSE, message |-> "tool call error"]

\* ----------------------------------------------------------- claim C29

\* The steps of the record that failed.
FailedSteps == { k \in DOMAIN journey_data.steps : ~journey_data.steps[k].success }

\* C29: while two execute_scenario runs on one JourneyScenario interleave at
\* their suspension points, in every state each ErrorEntry's step_index is the
\* index of a failed StepResult that is in steps, and errors has as many
\* entries as steps has failed StepResults.
C29_InterleavedRunsKeepRecordConsistent ==
  /\ \A e \in 1..Len(journey_data.errors) :
       journey_data.errors[e].step_index + 1 \in FailedSteps
  /\ Len(journey_data.errors) = Cardinality(FailedSteps)

\* Run A was at its second step when run B started and emptied the lists: A's
\* failed second step is recorded at index 0, and A is over while B still
\* waits for its first step.
C29_Witness ==
  /\ procs["A"].pc = "done" /\ procs["A"].i = 2
  /\ procs["B"].pc = "step" /\ procs["B"].i = 1
  /\ Len(journey_data.steps) = 1
  /\ Len(journey_data.errors) = 1
  /\ journey_data.errors[1].step_index = 0

====
